---------------------------- MODULE Spec2Model ----------------------------
(***************************************************************************)
(* The order repository of src/src/data/orders.ts over one database        *)
(* handle.                                                                 *)
(*                                                                         *)
(* Writes (Spec, SpecConc): createOrder, updateOrder, deleteOrder, with    *)
(* getOrder and getOrderWithDetails reading beside them, statement by      *)
(* statement.  A caller is suspended at every `await db.run(...)`; one     *)
(* action is the execution of the awaited statement by the store together  *)
(* with the continuation that runs up to the next await.  The rows carry   *)
(* the columns the write paths decide on: the id and the fields of an      *)
(* order as one value, and id, orderid and productid of a line.            *)
(*                                                                         *)
(* The handle is one connection: it is in a transaction or not, BEGIN      *)
(* fails inside a transaction, a statement executed outside a transaction  *)
(* is committed at once, and whatever executes inside a transaction is     *)
(* committed or undone with it, whoever issued it.  A statement may be     *)
(* rejected by the store (constraint, malformed value); the parent         *)
(* statement may also come back without lastID.  Statements that are in    *)
(* flight together (the detail UPDATEs of Promise.all, and a ROLLBACK      *)
(* issued while some of them are in flight) execute in any order.          *)
(*                                                                         *)
(* Reads (SpecList, SpecGet): getAllOrders, getCustomerOrders and getOrder *)
(* with every column their queries use, over tables that do not change:    *)
(* the options merged, the SQL text built, joins, ORDER BY, LIMIT/OFFSET   *)
(* and the aggregate as the store evaluates them.                          *)
(***************************************************************************)
EXTENDS Integers, Sequences, FiniteSets, TLC

\* ------------------------------------------------------------- bounds
NumCallers == 2      \* callers that may have a call in progress
MaxOrderId == 2      \* CustomerOrder ids the store hands out
NumProducts == 2     \* product ids
MaxDetails == 2      \* length of a `details` argument
MaxCalls == 3        \* calls started in one behaviour of Spec
MaxConcCalls == 2    \* calls started in one behaviour of SpecConc
MaxPage == 2         \* page numbers a listing is asked for
SmallRows == 2       \* CustomerOrder rows of a listed table drawn row by row
MaxListCalls == 1    \* calls started in one behaviour of SpecList
MaxLines == 3        \* OrderDetail rows of the tables getOrder reads
BigRows == 21        \* CustomerOrder rows of the listed table that fills two pages

Callers == 1..NumCallers
OrderIds == 1..MaxOrderId
Products == 1..NumProducts
OrderData == {"a", "b"}

VARIABLES
  orders,       \* CustomerOrder rows as the handle's connection sees them
  details,      \* OrderDetail rows as the handle's connection sees them
  txOpen,       \* the connection is inside BEGIN .. COMMIT/ROLLBACK
  snapOrders,   \* CustomerOrder rows a ROLLBACK restores (those at BEGIN)
  snapDetails,  \* OrderDetail rows a ROLLBACK restores
  pc,           \* per caller: the await its call is suspended at
  call,         \* per caller: arguments and locals of its call
  stale,        \* statements issued by Promise.all whose result nobody awaits any more
  log,          \* history: per caller, the statements of its call in execution order
  txOwner,      \* history: the caller whose BEGIN opened the transaction (0: none)
  pre,          \* history: per caller, the committed rows when its call started
  ncalls        \* history: calls started so far

vars == <<orders, details, txOpen, snapOrders, snapDetails, pc, call, stale,
          log, txOwner, pre, ncalls>>

\* ------------------------------------------------------------- store

\* A faulty variant of CompositeId: the two parts of the key in the wrong order.
CompositeId_Swapped(n, p) == ToString(p) \o "/" \o ToString(n)

\* `${result.lastID}/${detail.productid}`
CompositeId(n, p) == ToString(n) \o "/" \o ToString(p)

DetailIds == {CompositeId(n, p) : n \in OrderIds, p \in Products}

SetMax(S) == IF S = {} THEN 0 ELSE CHOOSE m \in S : \A x \in S : x <= m

\* The id the store assigns to a row inserted into CustomerOrder.
NextOrderId == SetMax({o.id : o \in orders}) + 1

\* The rows that are committed: inside a transaction, those a ROLLBACK restores.
CommittedOrders == IF txOpen THEN snapOrders ELSE orders
CommittedDetails == IF txOpen THEN snapDetails ELSE details

\* UPDATE CustomerOrder SET ... WHERE id = id
UpdatedOrders(id, data) ==
  {IF o.id = id THEN [o EXCEPT !.data = data] ELSE o : o \in orders}

\* UPDATE OrderDetail SET productid = ... WHERE id = d.id
UpdatedDetails(d) ==
  {IF r.id = d.id THEN [r EXCEPT !.productid = d.productid] ELSE r : r \in details}

\* The number of rows a WHERE id = id selects.
Matching(rows, id) == Cardinality({r \in rows : r.id = id})

\* A faulty variant of DeletedOrders: a DELETE that lost its WHERE clause.
DeletedOrders_All(id) == {}

\* DELETE FROM CustomerOrder WHERE id = id
DeletedOrders(id) == {o \in orders : o.id # id}

\* ------------------------------------------------------------- calls

NoCall == [op |-> "none"]

\* The arguments and locals of a call that starts: id, data and dets are arguments (i
\* is the number of details of updateOrder, the loop index of createOrder), lastID is
\* result.lastID, pend the statements Promise.all awaits, out/ret/err the way the call
\* ended; began, n (the call's number) and comm (what a read would have returned from
\* the committed rows) are history.
NewCall(op, id, data, dets, i) ==
  [op |-> op, id |-> id, data |-> data, dets |-> dets, lastID |-> 0, i |-> i,
   pend |-> {}, began |-> FALSE, out |-> "none", err |-> "", ret |-> 0, n |-> 0,
   comm |-> 0]

\* A statement of a call as the store executed it: res is "ok", "fail" (the
\* statement was rejected) or "noid" (it ran, and its result carries no lastID);
\* ch is the number of rows it changed; tx is the caller whose transaction was open
\* on the connection (0: none).
Entry(s, i, res, ch) == [stmt |-> s, i |-> i, res |-> res, ch |-> ch, tx |-> txOwner]

Outcome(ok) == IF ok THEN "ok" ELSE "fail"

CreateDetails ==
  UNION {[1..n -> [productid : Products]] : n \in 0..MaxDetails}

\* An element of the `details` of updateOrder(id, ...): a line of the order that is
\* updated.  The element is drawn when the statement that carries it executes;
\* nothing reads it before.
UpdateDetailInputs(id) ==
  [id : {CompositeId(id, p) : p \in Products}, productid : Products]

Returned(c, v) ==
  /\ pc' = [pc EXCEPT ![c] = "done"]
  /\ call' = [call EXCEPT ![c].out = "returned", ![c].ret = v]

Threw(c, e) ==
  /\ pc' = [pc EXCEPT ![c] = "done"]
  /\ call' = [call EXCEPT ![c].out = "threw", ![c].err = e]

StartCall(c, rec) ==
  /\ pc[c] = "idle"
  /\ ncalls' = ncalls + 1
  /\ call' = [call EXCEPT ![c] = [rec EXCEPT !.n = ncalls + 1]]
  /\ log' = [log EXCEPT ![c] = <<>>]
  /\ pre' = [pre EXCEPT ![c] = <<CommittedOrders, CommittedDetails>>]
  /\ UNCHANGED <<orders, details, txOpen, snapOrders, snapDetails, stale, txOwner>>

\* A faulty variant of Begin: BEGIN is awaited inside the try block, and its failure
\* goes to the catch block.
Begin_InsideTry(c, from, to) ==
  /\ pc[c] = from
  /\ IF txOpen
       THEN /\ pc' = [pc EXCEPT ![c] = IF from = "c_begin" THEN "c_rollback"
                                        ELSE "u_rollback"]
            /\ call' = [call EXCEPT ![c].err = "BEGIN"]
            /\ log' = [log EXCEPT ![c] = Append(@, Entry("BEGIN", 0, "fail", 0))]
            /\ UNCHANGED <<txOpen, snapOrders, snapDetails, txOwner>>
       ELSE /\ txOpen' = TRUE
            /\ snapOrders' = orders
            /\ snapDetails' = details
            /\ txOwner' = c
            /\ pc' = [pc EXCEPT ![c] = to]
            /\ call' = [call EXCEPT ![c].began = TRUE]
            /\ log' = [log EXCEPT ![c] = Append(@, [stmt |-> "BEGIN", i |-> 0, res |-> "ok", ch |-> 0,
                                                     tx |-> c])]
  /\ UNCHANGED <<orders, details, stale, pre, ncalls>>

\* db.run('BEGIN'), awaited before the try block: a failure leaves the function.
Begin(c, from, to) ==
  /\ pc[c] = from
  /\ IF txOpen
       THEN /\ Threw(c, "BEGIN")
            /\ log' = [log EXCEPT ![c] = Append(@, Entry("BEGIN", 0, "fail", 0))]
            /\ UNCHANGED <<txOpen, snapOrders, snapDetails, txOwner>>
       ELSE /\ txOpen' = TRUE
            /\ snapOrders' = orders
            /\ snapDetails' = details
            /\ txOwner' = c
            /\ pc' = [pc EXCEPT ![c] = to]
            /\ call' = [call EXCEPT ![c].began = TRUE]
            /\ log' = [log EXCEPT ![c] = Append(@, [stmt |-> "BEGIN", i |-> 0, res |-> "ok", ch |-> 0,
                                                     tx |-> c])]
  /\ UNCHANGED <<orders, details, stale, pre, ncalls>>

\* db.run('COMMIT') inside the try block.
Commit(c, from, rb, ret) ==
  /\ pc[c] = from
  /\ \E ok \in BOOLEAN :
       /\ ok => txOpen
       /\ log' = [log EXCEPT ![c] = Append(@, Entry("COMMIT", 0, Outcome(ok), 0))]
       /\ IF ok
            THEN /\ txOpen' = FALSE
                 /\ snapOrders' = {}
                 /\ snapDetails' = {}
                 /\ txOwner' = 0
                 /\ Returned(c, ret)
            ELSE /\ pc' = [pc EXCEPT ![c] = rb]
                 /\ call' = [call EXCEPT ![c].err = "COMMIT"]
                 /\ UNCHANGED <<txOpen, snapOrders, snapDetails, txOwner>>
  /\ UNCHANGED <<orders, details, stale, pre, ncalls>>

\* The store's part of db.run('ROLLBACK'): it fails when no transaction is open.
RollbackStore ==
  IF txOpen
    THEN /\ orders' = snapOrders
         /\ details' = snapDetails
         /\ txOpen' = FALSE
         /\ snapOrders' = {}
         /\ snapDetails' = {}
         /\ txOwner' = 0
    ELSE UNCHANGED <<orders, details, txOpen, snapOrders, snapDetails, txOwner>>

\* ------------------------------------------------------------- createOrder

CallCreateOrder(c) ==
  /\ \E data \in OrderData, ds \in CreateDetails :
       StartCall(c, NewCall("createOrder", 0, data, ds, 1))
  /\ pc' = [pc EXCEPT ![c] = "c_begin"]

CreateBegin(c) ==
  /\ call[c].op = "createOrder"
  /\ Begin(c, "c_begin", "c_insert")

\* A faulty variant of CreateInsertOrder: the test of result.lastID is missing, and
\* the loop over the details runs with no id.
CreateInsertOrder_NoIdTest(c) ==
  /\ pc[c] = "c_insert"
  /\ \E res \in {"ok", "noid", "fail"} :
       /\ res # "fail" => NextOrderId <= MaxOrderId
       /\ log' = [log EXCEPT ![c] = Append(@, Entry("INSERT_ORDER", 0, res,
                                                 IF res = "fail" THEN 0 ELSE 1))]
       /\ orders' = IF res = "fail" THEN orders
                    ELSE orders \cup {[id |-> NextOrderId, data |-> call[c].data]}
       /\ IF res = "fail"
            THEN /\ call' = [call EXCEPT ![c].err = "INSERT_ORDER"]
                 /\ pc' = [pc EXCEPT ![c] = "c_rollback"]
            ELSE /\ call' = [call EXCEPT ![c].lastID =
                                IF res = "ok" THEN NextOrderId ELSE 0]
                 /\ pc' = [pc EXCEPT ![c] =
                             IF Len(call[c].dets) = 0 THEN "c_commit" ELSE "c_detail"]
  /\ UNCHANGED <<details, txOpen, snapOrders, snapDetails, stale, txOwner, pre, ncalls>>

\* lines 143-150: the parent INSERT, then the lastID test.
CreateInsertOrder(c) ==
  /\ pc[c] = "c_insert"
  /\ \E res \in {"ok", "noid", "fail"} :
       /\ res # "fail" => NextOrderId <= MaxOrderId
       /\ log' = [log EXCEPT ![c] = Append(@, Entry("INSERT_ORDER", 0, res,
                                                 IF res = "fail" THEN 0 ELSE 1))]
       /\ orders' = IF res = "fail" THEN orders
                    ELSE orders \cup {[id |-> NextOrderId, data |-> call[c].data]}
       /\ CASE res = "ok" ->
                 /\ call' = [call EXCEPT ![c].lastID = NextOrderId]
                 /\ pc' = [pc EXCEPT ![c] =
                             IF Len(call[c].dets) = 0 THEN "c_commit" ELSE "c_detail"]
            [] res = "noid" ->
                 /\ call' = [call EXCEPT ![c].err = "Error occurred"]
                 /\ pc' = [pc EXCEPT ![c] = "c_rollback"]
            [] res = "fail" ->
                 /\ call' = [call EXCEPT ![c].err = "INSERT_ORDER"]
                 /\ pc' = [pc EXCEPT ![c] = "c_rollback"]
  /\ UNCHANGED <<details, txOpen, snapOrders, snapDetails, stale, txOwner, pre, ncalls>>

\* lines 151-157: one iteration of the for loop.  The id is the key of OrderDetail:
\* the store rejects a second row with the same id.
CreateInsertDetail(c) ==
  /\ pc[c] = "c_detail"
  /\ LET i == call[c].i
         d == call[c].dets[i]
         row == [id |-> CompositeId(call[c].lastID, d.productid),
                 orderid |-> call[c].lastID, productid |-> d.productid]
     IN \E ok \in BOOLEAN :
          /\ ok => \A r \in details : r.id # row.id
          /\ log' = [log EXCEPT ![c] = Append(@, Entry("INSERT_DETAIL", i, Outcome(ok),
                                                      IF ok THEN 1 ELSE 0))]
          /\ IF ok
               THEN /\ details' = details \cup {row}
                    /\ call' = [call EXCEPT ![c].i = i + 1]
                    /\ pc' = [pc EXCEPT ![c] =
                                IF i = Len(call[c].dets) THEN "c_commit" ELSE "c_detail"]
               ELSE /\ details' = details
                    /\ call' = [call EXCEPT ![c].err = "INSERT_DETAIL"]
                    /\ pc' = [pc EXCEPT ![c] = "c_rollback"]
  /\ UNCHANGED <<orders, txOpen, snapOrders, snapDetails, stale, txOwner, pre, ncalls>>

\* lines 158-159
CreateCommit(c) ==
  /\ call[c].op = "createOrder"
  /\ Commit(c, "c_commit", "c_rollback", call[c].lastID)

\* A faulty variant of CreateRollback: the catch block rethrows without ROLLBACK.
CreateRollback_NoRollback(c) ==
  /\ pc[c] = "c_rollback"
  /\ Threw(c, call[c].err)
  /\ UNCHANGED <<orders, details, txOpen, snapOrders, snapDetails, stale, log, txOwner,
                 pre, ncalls>>

\* lines 160-163: catch (e) { await db.run('ROLLBACK'); throw (e); }
CreateRollback(c) ==
  /\ pc[c] = "c_rollback"
  /\ log' = [log EXCEPT ![c] = Append(@, Entry("ROLLBACK", 0, Outcome(txOpen), 0))]
  /\ RollbackStore
  /\ Threw(c, IF txOpen THEN call[c].err ELSE "ROLLBACK")
  /\ UNCHANGED <<stale, pre, ncalls>>

\* ------------------------------------------------------------- updateOrder

\* xs.join(sep)
RECURSIVE Join(_, _)
Join(xs, sep) ==
  IF Len(xs) = 0 THEN ""
  ELSE IF Len(xs) = 1 THEN xs[1]
  ELSE xs[1] \o sep \o Join(Tail(xs), sep)

\* An object with its fields in insertion order: a sequence of <<key, value>>.
Keys(obj) == [i \in 1..Len(obj) |-> obj[i][1]]
Values(obj) == [i \in 1..Len(obj) |-> obj[i][2]]

\* `data` without a field: {}.
NoFields == "{}"

\* The `data` of updateOrder: some fields, or none.
UpdateData == OrderData \cup {NoFields}

\* The fields of a `data`.
FieldsOf(data) == IF data = NoFields THEN <<>> ELSE <<<<"shipcity", data>>>>

\* A faulty variant of SetList: with no field, a SET that assigns nothing new.
SetList_NeverEmpty(data) ==
  IF Len(data) = 0 THEN "id = id"
  ELSE Join([i \in 1..Len(data) |-> Keys(data)[i] \o " = $" \o ToString(i)], ", ")

\* lines 194-195: Object.keys(data).map((it, index) => `${it} = $${index + 1}`).join(', ')
SetList(data) ==
  Join([i \in 1..Len(data) |-> Keys(data)[i] \o " = $" \o ToString(i)], ", ")

\* UPDATE ... SET followed by no assignment is not a statement: the store rejects it.
NotAStatement(data) == SetList(FieldsOf(data)) = ""


CallUpdateOrder(c) ==
  /\ \E id \in OrderIds, data \in UpdateData, n \in 0..MaxDetails :
       StartCall(c, NewCall("updateOrder", id, data, <<>>, n))
  /\ pc' = [pc EXCEPT ![c] = "u_begin"]

UpdateBegin(c) ==
  /\ call[c].op = "updateOrder"
  /\ Begin(c, "u_begin", "u_update")

\* lines 192-207: the parent UPDATE, the lastID test, then details.map(...) issues
\* every detail UPDATE before Promise.all is awaited.
UpdateParent(c) ==
  /\ pc[c] = "u_update"
  /\ \E res \in {"ok", "noid", "fail"} :
       /\ NotAStatement(call[c].data) => res = "fail"
       /\ log' = [log EXCEPT ![c] = Append(@, Entry("UPDATE_ORDER", 0, res,
                                                 IF res = "fail" THEN 0
                                                 ELSE Matching(orders, call[c].id)))]
       /\ orders' = IF res = "fail" THEN orders
                    ELSE UpdatedOrders(call[c].id, call[c].data)
       /\ CASE res = "ok" ->
                 /\ call' = [call EXCEPT ![c].pend = 1..call[c].i]
                 /\ pc' = [pc EXCEPT ![c] =
                             IF call[c].i = 0 THEN "u_commit" ELSE "u_all"]
            [] res = "noid" ->
                 /\ call' = [call EXCEPT ![c].err = "Error occurred"]
                 /\ pc' = [pc EXCEPT ![c] = "u_rollback"]
            [] res = "fail" ->
                 /\ call' = [call EXCEPT ![c].err = "UPDATE_ORDER"]
                 /\ pc' = [pc EXCEPT ![c] = "u_rollback"]
  /\ UNCHANGED <<details, txOpen, snapOrders, snapDetails, stale, txOwner, pre, ncalls>>

\* The statements of Promise.all that are still in flight when it rejects.
Abandoned(c, i) ==
  {[owner |-> c, n |-> call[c].n, id |-> call[c].id, i |-> j] : j \in call[c].pend \ {i}}

\* lines 207-220: one of the detail UPDATEs issued by Promise.all finishes.  The
\* first rejection rejects Promise.all and enters the catch block, which issues
\* ROLLBACK; the statements still in flight are not awaited any more.
UpdateDetail(c, i) ==
  /\ pc[c] = "u_all"
  /\ i \in call[c].pend
  /\ \E ok \in BOOLEAN, d \in UpdateDetailInputs(call[c].id) :
       /\ log' = [log EXCEPT ![c] = Append(@, Entry("UPDATE_DETAIL", i, Outcome(ok),
                                                 IF ok THEN Matching(details, d.id) ELSE 0))]
       /\ IF ok
            THEN /\ details' = UpdatedDetails(d)
                 /\ call' = [call EXCEPT ![c].pend = @ \ {i}]
                 /\ pc' = [pc EXCEPT ![c] =
                             IF call[c].pend = {i} THEN "u_commit" ELSE "u_all"]
                 /\ stale' = stale
            ELSE /\ details' = details
                 /\ call' = [call EXCEPT ![c].pend = {}, ![c].err = "UPDATE_DETAIL"]
                 /\ pc' = [pc EXCEPT ![c] = "u_rollback"]
                 /\ stale' = stale \cup Abandoned(c, i)
  /\ UNCHANGED <<orders, txOpen, snapOrders, snapDetails, txOwner, pre, ncalls>>

\* lines 207-220: a detail UPDATE that Promise.all no longer awaits is executed by
\* the store, in whatever transaction state the connection is in by then.
StaleUpdate(s) ==
  /\ s \in stale
  /\ stale' = stale \ {s}
  /\ \E ok \in BOOLEAN, d \in UpdateDetailInputs(s.id) :
       /\ details' = IF ok THEN UpdatedDetails(d) ELSE details
       /\ log' = IF call[s.owner].op = "updateOrder" /\ call[s.owner].n = s.n
                    THEN [log EXCEPT ![s.owner] =
                            Append(@, Entry("UPDATE_DETAIL", s.i, Outcome(ok),
                                           IF ok THEN Matching(details, d.id) ELSE 0))]
                    ELSE log
  /\ UNCHANGED <<orders, txOpen, snapOrders, snapDetails, pc, call, txOwner, pre, ncalls>>

\* lines 222-223
UpdateCommit(c) ==
  /\ call[c].op = "updateOrder"
  /\ Commit(c, "u_commit", "u_rollback", 0)

\* A faulty variant of UpdateRollback: the catch block rethrows the error it caught.
UpdateRollback_Rethrows(c) ==
  /\ pc[c] = "u_rollback"
  /\ log' = [log EXCEPT ![c] = Append(@, Entry("ROLLBACK", 0, Outcome(txOpen), 0))]
  /\ RollbackStore
  /\ Threw(c, IF txOpen THEN call[c].err ELSE "ROLLBACK")
  /\ UNCHANGED <<stale, pre, ncalls>>

\* A faulty variant of UpdateRollback: the catch block throws without ROLLBACK.
UpdateRollback_NoRollback(c) ==
  /\ pc[c] = "u_rollback"
  /\ Threw(c, "Error occurred")
  /\ UNCHANGED <<orders, details, txOpen, snapOrders, snapDetails, stale, log, txOwner,
                 pre, ncalls>>

\* lines 224-227: catch (e) { await db.run(sql`ROLLBACK`); throw new Error('Error occurred'); }
UpdateRollback(c) ==
  /\ pc[c] = "u_rollback"
  /\ log' = [log EXCEPT ![c] = Append(@, Entry("ROLLBACK", 0, Outcome(txOpen), 0))]
  /\ RollbackStore
  /\ Threw(c, IF txOpen THEN "Error occurred" ELSE "ROLLBACK")
  /\ UNCHANGED <<stale, pre, ncalls>>

\* ------------------------------------------------------------- deleteOrder

CallDeleteOrder(c) ==
  /\ \E id \in OrderIds :
       StartCall(c, NewCall("deleteOrder", id, "", <<>>, 1))
  /\ pc' = [pc EXCEPT ![c] = "d_delete"]

\* lines 174-176
DeleteOrder(c) ==
  /\ pc[c] = "d_delete"
  /\ orders' = DeletedOrders(call[c].id)
  /\ log' = [log EXCEPT ![c] = Append(@, Entry("DELETE_ORDER", 0, "ok",
                                                 Matching(orders, call[c].id)))]
  /\ Returned(c, 0)
  /\ UNCHANGED <<details, txOpen, snapOrders, snapDetails, stale, txOwner, pre, ncalls>>

\* ------------------------------------------------------------- getOrder

NullOrder == [id |-> 0, data |-> "NULL", lines |-> {}]

\* SELECT co.*, ..., SUM(...) FROM CustomerOrder AS co ... LEFT JOIN OrderDetail AS od
\* ON od.orderid = co.id WHERE co.id = $1: an aggregate without GROUP BY yields one
\* row, of NULLs when no CustomerOrder row matches.
OrderRowOf(os, ds, id) ==
  IF \E o \in os : o.id = id
    THEN LET o == CHOOSE x \in os : x.id = id
         IN [id |-> o.id, data |-> o.data,
             lines |-> {r.id : r \in {x \in ds : x.orderid = id}}]
    ELSE NullOrder

OrderRow(id) == OrderRowOf(orders, details, id)

CallGetOrder(c) ==
  /\ \E id \in OrderIds :
       StartCall(c, NewCall("getOrder", id, "", <<>>, 1))
  /\ pc' = [pc EXCEPT ![c] = "g_get"]

\* lines 86-99
GetOrder(c) ==
  /\ pc[c] = "g_get"
  /\ log' = [log EXCEPT ![c] = Append(@, Entry("SELECT_ORDER", 0, "ok", 0))]
  /\ pc' = [pc EXCEPT ![c] = "done"]
  /\ call' = [call EXCEPT ![c].out = "returned", ![c].ret = OrderRow(call[c].id),
                          ![c].comm = OrderRowOf(CommittedOrders, CommittedDetails,
                                                 call[c].id)]
  /\ UNCHANGED <<orders, details, txOpen, snapOrders, snapDetails, stale, txOwner, pre, ncalls>>

\* ------------------------------------------------------------- getOrderWithDetails

\* SELECT od.* ... FROM OrderDetail AS od ... WHERE orderid = $1 (lines 110-114)
OrderDetailsOf(ds, id) == {r \in ds : r.orderid = id}

\* The arguments and locals of getOrderWithDetails(id): order is the result of the
\* first read; at1 and at2 (history) are the rows of the store when the first and
\* the second read executed.
WithDetailsCall(id) ==
  [op |-> "getOrderWithDetails", id |-> id, order |-> NullOrder, began |-> FALSE,
   out |-> "none", err |-> "", ret |-> <<>>, n |-> 0,
   at1 |-> <<{}, {}>>, at2 |-> <<{}, {}>>]

CallGetOrderWithDetails(c) ==
  /\ \E id \in OrderIds : StartCall(c, WithDetailsCall(id))
  /\ pc' = [pc EXCEPT ![c] = "w_order"]

\* line 125: let order = await getOrder(id)
WithDetailsOrder(c) ==
  /\ pc[c] = "w_order"
  /\ pc' = [pc EXCEPT ![c] = "w_items"]
  /\ call' = [call EXCEPT ![c].order = OrderRow(call[c].id),
                          ![c].at1 = <<orders, details>>]
  /\ log' = [log EXCEPT ![c] = Append(@, Entry("SELECT_ORDER", 0, "ok", 0))]
  /\ UNCHANGED <<orders, details, txOpen, snapOrders, snapDetails, stale, txOwner, pre, ncalls>>

\* A faulty variant of WithDetailsItems: the second read sees the rows the first read
\* saw.
WithDetailsItems_SameSnapshot(c) ==
  /\ pc[c] = "w_items"
  /\ pc' = [pc EXCEPT ![c] = "done"]
  /\ call' = [call EXCEPT ![c].out = "returned",
                          ![c].ret = <<call[c].order,
                                       OrderDetailsOf(call[c].at1[2], call[c].id)>>,
                          ![c].at2 = <<orders, details>>]
  /\ log' = [log EXCEPT ![c] = Append(@, Entry("SELECT_DETAILS", 0, "ok", 0))]
  /\ UNCHANGED <<orders, details, txOpen, snapOrders, snapDetails, stale, txOwner, pre, ncalls>>

\* lines 126-127: let items = await getOrderDetails(id); return [order, items]
WithDetailsItems(c) ==
  /\ pc[c] = "w_items"
  /\ pc' = [pc EXCEPT ![c] = "done"]
  /\ call' = [call EXCEPT ![c].out = "returned",
                          ![c].ret = <<call[c].order,
                                       OrderDetailsOf(details, call[c].id)>>,
                          ![c].at2 = <<orders, details>>]
  /\ log' = [log EXCEPT ![c] = Append(@, Entry("SELECT_DETAILS", 0, "ok", 0))]
  /\ UNCHANGED <<orders, details, txOpen, snapOrders, snapDetails, stale, txOwner, pre, ncalls>>

\* ------------------------------------------------------------- getAllOrders

\* SQL NULL in a text column and in a numeric column.
NullText == "NULL"
NullNum == 0 - 1

\* `undefined`, the value of DEFAULT_ORDER_COLLECTION_OPTIONS.customerId.
Undefined == "undefined"

\* The reference tables the listing and getOrder join to.
Customer == {[id |-> "ALFKI", companyname |-> "Alfreds Futterkiste"],
             [id |-> "BONAP", companyname |-> "Bon app"]}
Employee == {[id |-> 1, firstname |-> "Nancy", lastname |-> "Davolio"]}

NullCustomer == [id |-> NullText, companyname |-> NullText]
NullEmployee == [id |-> NullNum, firstname |-> NullText, lastname |-> NullText]

DefaultPerPage == 20

\* lines 27-38
DEFAULT_ORDER_COLLECTION_OPTIONS ==
  [order |-> "asc", page |-> 1, perPage |-> DefaultPerPage, sort |-> "id",
   customerId |-> Undefined]

OptionKeys == {"order", "page", "perPage", "sort", "customerId"}

\* A faulty variant of Spread: the defaults win over what the caller passed.
Spread_DefaultsLast(a, b) ==
  [k \in DOMAIN a \cup DOMAIN b |-> IF k \in DOMAIN a THEN a[k] ELSE b[k]]

\* { ...a, ...b }
Spread(a, b) ==
  [k \in DOMAIN a \cup DOMAIN b |-> IF k \in DOMAIN b THEN b[k] ELSE a[k]]

\* `customerId ? ... : ''`: undefined and the empty string are falsy.
Truthy(v) == v # Undefined /\ v # ""

\* line 56
WhereCustomer(customerId) ==
  IF Truthy(customerId)
    THEN "WHERE CustomerOrder.customerid = '" \o customerId \o "'"
    ELSE ""

\* A faulty variant of Offset: pages counted from zero.
Offset_ZeroIndexed(o) == o.page * o.perPage

\* line 67: ${(page - 1) * perPage}
Offset(o) == (o.page - 1) * o.perPage

\* lines 59-67: the text handed to db.all, which gets no parameters beside it.  The
\* column list is ORDER_COLUMNS (lines 6-11) joined.
AllOrdersSql(o) ==
  "SELECT CustomerOrder.id AS id,CustomerOrder.customerid,CustomerOrder.employeeid,"
  \o "CustomerOrder.shipcity,CustomerOrder.shipcountry,CustomerOrder.shippeddate,"
  \o " Customer.companyname AS customername, Employee.lastname AS employeename"
  \o " FROM CustomerOrder LEFT JOIN Customer ON Customer.id = customerid"
  \o " LEFT JOIN Employee ON Employee.id = employeeid "
  \o WhereCustomer(o.customerId)
  \o " ORDER BY " \o o.sort \o " " \o o.order
  \o " LIMIT " \o ToString(o.perPage)
  \o " OFFSET " \o ToString(Offset(o))

\* The rows of `table` a LEFT JOIN attaches to one row: those that match, or one row
\* of NULLs.
LeftJoin(matches, nullRow) == IF matches = {} THEN {nullRow} ELSE matches

\* FROM CustomerOrder LEFT JOIN Customer ... LEFT JOIN Employee ... [WHERE ...], with
\* the columns of the SELECT list.
AllOrdersRows(os, o) ==
  UNION {
    {[id |-> co.id, customerid |-> co.customerid, employeeid |-> co.employeeid,
      shippeddate |-> co.shippeddate, customername |-> c.companyname,
      employeename |-> e.lastname] :
       c \in LeftJoin({x \in Customer : x.id = co.customerid}, NullCustomer),
       e \in LeftJoin({x \in Employee : x.id = co.employeeid}, NullEmployee)} :
    co \in {x \in os : Truthy(o.customerId) => x.customerid = o.customerId}}

\* The column ORDER BY ${sort} names.
SortKey(row, sort) == IF sort = "shippeddate" THEN row.shippeddate ELSE row.id

\* The rows that may come first under ORDER BY sort order.
First(S, sort, order) ==
  {m \in S : \A x \in S : IF order = "desc"
                            THEN SortKey(x, sort) <= SortKey(m, sort)
                            ELSE SortKey(m, sort) <= SortKey(x, sort)}

\* ORDER BY sort order: every sequence of the rows that the clause allows (rows with
\* equal keys come in any order).
RECURSIVE Ordered(_, _, _)
Ordered(S, sort, order) ==
  IF S = {} THEN {<<>>}
  ELSE UNION {{<<m>> \o t : t \in Ordered(S \ {m}, sort, order)} :
              m \in First(S, sort, order)}

\* LIMIT n OFFSET k: a negative offset counts as none.
LimitOffset(rows, n, k) ==
  LET from == IF k < 0 THEN 1 ELSE k + 1
      to == IF from + n - 1 > Len(rows) THEN Len(rows) ELSE from + n - 1
  IN SubSeq(rows, from, to)

\* What db.all may return for the query of the merged options o.
AllOrdersResults(os, o) ==
  {LimitOffset(rows, o.perPage, Offset(o)) :
     rows \in Ordered(AllOrdersRows(os, o), o.sort, o.order)}

\* The options a caller passes: any part of OrderCollectionOptions.
Pages == 1..MaxPage
PerPages == {1, 10, DefaultPerPage}
Sorts == {"id", "shippeddate"}
Directions == {"asc", "desc"}
CustomerIds == {"ALFKI", "BONAP", ""}

PartialOpts ==
  {[k \in K |-> full[k]] :
     full \in [order : Directions, page : Pages, perPage : PerPages, sort : Sorts,
               customerId : CustomerIds],
     K \in SUBSET OptionKeys}

\* The arguments and locals of a listing call: arg and given are the arguments of
\* getCustomerOrders, opts is the argument of getAllOrders, options the merged
\* options, text the SQL string of line 59.
ListCall(op, arg, given, opts) ==
  [op |-> op, arg |-> arg, given |-> given, opts |-> opts,
   options |-> Spread(DEFAULT_ORDER_COLLECTION_OPTIONS, opts),
   text |-> AllOrdersSql(Spread(DEFAULT_ORDER_COLLECTION_OPTIONS, opts)),
   began |-> FALSE, out |-> "none", err |-> "", ret |-> <<>>, n |-> 0]

\* lines 47-57: getAllOrders(opts) up to `await getDb()`.
CallGetAllOrders(c) ==
  /\ \E opts \in PartialOpts : StartCall(c, ListCall("getAllOrders", Undefined, opts, opts))
  /\ pc' = [pc EXCEPT ![c] = "l_all"]

\* line 76: { sort: 'shippeddate', order: 'asc', customerId, ...opts }
CustomerOpts(customerId, opts) ==
  Spread([sort |-> "shippeddate", order |-> "asc", customerId |-> customerId], opts)

\* lines 75-76, then lines 47-57 of the getAllOrders it calls.
CallGetCustomerOrders(c) ==
  /\ \E customerId \in CustomerIds, opts \in PartialOpts :
       StartCall(c, ListCall("getCustomerOrders", customerId, opts,
                             CustomerOpts(customerId, opts)))
  /\ pc' = [pc EXCEPT ![c] = "l_all"]

\* lines 59-67: db.all executes the query and the rows are returned.
GetAllOrders(c) ==
  /\ pc[c] = "l_all"
  /\ \E rows \in AllOrdersResults(orders, call[c].options) : Returned(c, rows)
  /\ log' = [log EXCEPT ![c] = Append(@, Entry("SELECT_ORDERS", 0, "ok", 0))]
  /\ UNCHANGED <<orders, details, txOpen, snapOrders, snapDetails, stale, txOwner, pre, ncalls>>

\* ------------------------------------------------------------- getOrder, all columns

\* Amounts are counted in hundredths and a discount in percent: 0.1 is 10, and the
\* 23 of two lines of 10 * 2 * 0.9 and 5 * 1 * 1 is 2300.
NullDetail ==
  [id |-> NullText, orderid |-> NullNum, productid |-> NullNum, unitprice |-> NullNum,
   quantity |-> NullNum, discount |-> NullNum]

\* A faulty variant of LineSubtotal: the discount is not taken off.
LineSubtotal_NoDiscount(od) == od.unitprice * od.quantity * 100

\* od.unitprice * od.quantity * (1 - od.discount)
LineSubtotal(od) == od.unitprice * od.quantity * (100 - od.discount)

\* SUM(...) over the joined rows: NULL terms are skipped, and the sum of no term is
\* NULL.
RECURSIVE SumTerms(_)
SumTerms(J) ==
  IF J = {} THEN 0
  ELSE LET j == CHOOSE x \in J : TRUE
       IN LineSubtotal(j.od) + SumTerms(J \ {j})

Sum(J) ==
  LET terms == {j \in J : j.od # NullDetail}
  IN IF terms = {} THEN NullNum ELSE SumTerms(terms)

\* lines 92-96: FROM CustomerOrder AS co LEFT JOIN Customer ... LEFT JOIN Employee ...
\* LEFT JOIN OrderDetail AS od ON od.orderid = co.id WHERE co.id = $1
OrderJoin(os, ds, id) ==
  UNION {
    {[co |-> co, c |-> c, e |-> e, od |-> od] :
       c \in LeftJoin({x \in Customer : co.customerid = x.id}, NullCustomer),
       e \in LeftJoin({x \in Employee : co.employeeid = x.id}, NullEmployee),
       od \in LeftJoin({x \in ds : x.orderid = co.id}, NullDetail)} :
    co \in {x \in os : x.id = id}}

\* e.firstname || ' ' || e.lastname: NULL when a part is NULL.
FullName(e) ==
  IF e.firstname = NullText \/ e.lastname = NullText THEN NullText
  ELSE e.firstname \o " " \o e.lastname

\* lines 88-91: the one row of an aggregate without GROUP BY.  The columns outside
\* SUM come from one of the joined rows, and are NULL when there is none.
SelectOrder(os, ds, id) ==
  LET J == OrderJoin(os, ds, id)
  IN IF J = {}
       THEN {[id |-> NullNum, customerid |-> NullText, employeeid |-> NullNum,
              shippeddate |-> NullNum, customername |-> NullText,
              employeename |-> NullText, subtotal |-> NullNum]}
       ELSE {[id |-> j.co.id, customerid |-> j.co.customerid,
              employeeid |-> j.co.employeeid, shippeddate |-> j.co.shippeddate,
              customername |-> j.c.companyname, employeename |-> FullName(j.e),
              subtotal |-> Sum(J)] : j \in J}

\* What db.get resolves to when the statement yields no row.
NoRow == [undefined |-> TRUE]

\* db.get: the first row of the result, if any.
DbGet(rows) == IF rows = {} THEN {NoRow} ELSE rows

\* lines 86-99 with every column: db.get executes the query and its row is returned.
GetOrderRow(c) ==
  /\ pc[c] = "g_get"
  /\ \E row \in DbGet(SelectOrder(orders, details, call[c].id)) : Returned(c, row)
  /\ log' = [log EXCEPT ![c] = Append(@, Entry("SELECT_ORDER", 0, "ok", 0))]
  /\ UNCHANGED <<orders, details, txOpen, snapOrders, snapDetails, stale, txOwner, pre, ncalls>>

\* ------------------------------------------------------------- SQL text

\* `$${id + from}` for every value of the object
Placeholders(obj, from) == [i \in 1..Len(obj) |-> "$" \o ToString(i - 1 + from)]

\* lines 87-97, 110-114, 174-176, 208-213: texts without a template expression.
GetOrderSql ==
  "SELECT co.*, c.companyname AS customername,"
  \o " e.firstname || ' ' || e.lastname AS employeename,"
  \o " SUM(od.unitprice * od.quantity * (1 - od.discount)) AS subtotal"
  \o " FROM CustomerOrder AS co LEFT JOIN Customer AS c ON co.customerid = c.id"
  \o " LEFT JOIN Employee AS e ON co.employeeid = e.id"
  \o " LEFT JOIN OrderDetail AS od ON od.orderid = co.id WHERE co.id = $1"
GetOrderDetailsSql ==
  "SELECT od.*, od.unitprice * od.quantity AS price, p.productname as productname"
  \o " FROM OrderDetail AS od LEFT JOIN Product AS p ON p.id = od.productid"
  \o " WHERE orderid = $1"
DeleteOrderSql == "DELETE FROM CustomerOrder WHERE id = $1"
UpdateDetailSql ==
  "UPDATE OrderDetail SET 'productid' = $1, 'quantity'= $2, 'unitprice' = $3,"
  \o " 'discount' = $4 WHERE id = $5"

\* lines 144-146
InsertOrderSql(order) ==
  "INSERT INTO CustomerOrder(" \o Join(Keys(order), ", ") \o ") VALUES ("
  \o Join(Placeholders(order, 1), ", ") \o ")"

\* lines 153-155
InsertDetailSql(detail) ==
  "INSERT INTO OrderDetail(" \o Join(<<"orderid", "id">> \o Keys(detail), ", ")
  \o ") VALUES ($1, $2, " \o Join(Placeholders(detail, 3), ", ") \o ")"

\* lines 192-196
UpdateOrderSql(id, data) ==
  "UPDATE CustomerOrder SET " \o SetList(data) \o " WHERE id=" \o ToString(id)

\* Objects with the same fields and any values.
TextValues == {"Oslo", "Rome"}
OrderObjects ==
  {<<>>} \cup {<<<<"shipcity", v>>>> : v \in TextValues}
    \cup {<<<<"shipcity", v>>, <<"shipname", w>>>> : v, w \in TextValues}
DetailObjects ==
  {<<<<"productid", p>>, <<"quantity", q>>>> : p \in Products, q \in 1..2}

\* ------------------------------------------------------------- the caller

\* The caller takes the result of its call.
Ack(c) ==
  /\ pc[c] = "done"
  /\ pc' = [pc EXCEPT ![c] = "idle"]
  /\ call' = [call EXCEPT ![c] = NoCall]
  /\ log' = [log EXCEPT ![c] = <<>>]
  /\ pre' = [pre EXCEPT ![c] = <<{}, {}>>]
  /\ UNCHANGED <<orders, details, txOpen, snapOrders, snapDetails, stale, txOwner, ncalls>>

Init ==
  /\ orders = {}
  /\ details = {}
  /\ txOpen = FALSE
  /\ snapOrders = {}
  /\ snapDetails = {}
  /\ pc = [c \in Callers |-> "idle"]
  /\ call = [c \in Callers |-> NoCall]
  /\ stale = {}
  /\ log = [c \in Callers |-> <<>>]
  /\ txOwner = 0
  /\ pre = [c \in Callers |-> <<{}, {}>>]
  /\ ncalls = 0

\* ------------------------------------------------------------- properties

Finished(c, op, out) == pc[c] = "done" /\ call[c].op = op /\ call[c].out = out

HasEntry(c, stmt, res) ==
  \E k \in 1..Len(log[c]) : log[c][k].stmt = stmt /\ log[c][k].res = res

\* C1: createOrder atomicity.  When a createOrder call whose parent insert, detail
\* insert or COMMIT failed has signalled its failure, the rows of the store are
\* exactly the rows that were there when the call started: no CustomerOrder row and
\* no OrderDetail row of the call is left, visible or committed, and no transaction
\* is open.
C1_CreateOrderAtomic ==
  \A c \in Callers :
    Finished(c, "createOrder", "threw") /\ call[c].began =>
      /\ ~txOpen
      /\ orders = pre[c][1]
      /\ details = pre[c][2]

\* A createOrder call failed at its second detail insert, after the parent insert and
\* the first detail insert had succeeded, on a store that already held rows.
C1_Witness ==
  \E c \in Callers :
    /\ Finished(c, "createOrder", "threw")
    /\ call[c].err = "INSERT_DETAIL"
    /\ HasEntry(c, "INSERT_DETAIL", "ok")
    /\ pre[c][1] # {}
    /\ pre[c][2] # {}

\* C2: updateOrder leaves no partial state after an error.  Once a failed updateOrder
\* call has signalled its failure and every statement it issued has finished, the
\* rows of the store are those that were there when the call started: neither the
\* parent change nor any detail change of the call is committed.
C2_UpdateOrderNoPartialState ==
  \A c \in Callers :
    ( /\ Finished(c, "updateOrder", "threw")
      /\ call[c].began
      /\ \A s \in stale : s.n # call[c].n ) =>
      /\ ~txOpen
      /\ orders = pre[c][1]
      /\ details = pre[c][2]

\* The string the claim gives for the detail of order n and product p: "n/p".
ClaimedDetailId(n, p) == ToString(n) \o "/" \o ToString(p)

SuppliedRows(c, n) ==
  {[id |-> ClaimedDetailId(n, call[c].dets[j].productid), orderid |-> n,
    productid |-> call[c].dets[j].productid] : j \in 1..Len(call[c].dets)}

\* C3: createOrder success postcondition and id composition.  When createOrder
\* returns {id: N}, N is the id the store assigned to the parent insert (a fresh
\* one), the transaction is committed, the CustomerOrder rows are those from before
\* the call plus the row N, and the OrderDetail rows are those from before the call
\* plus, for every supplied detail with product id P, exactly one row with orderid N
\* and id "N/P".
C3_CreateOrderPostcondition ==
  \A c \in Callers :
    Finished(c, "createOrder", "returned") =>
      LET N == call[c].ret
      IN /\ ~txOpen
         /\ N = SetMax({o.id : o \in pre[c][1]}) + 1
         /\ orders = pre[c][1] \cup {[id |-> N, data |-> call[c].data]}
         /\ details = pre[c][2] \cup SuppliedRows(c, N)
         /\ SuppliedRows(c, N) \cap pre[c][2] = {}
         /\ \A j \in 1..Len(call[c].dets) :
              Cardinality({r \in details :
                             /\ r.orderid = N
                             /\ r.id = ClaimedDetailId(N, call[c].dets[j].productid)}) = 1

\* createOrder returned {id: 2} for details with the products 2 and 1, and the rows
\* "2/2" and "2/1" are there beside the rows of order 1.
C3_Witness ==
  \E c \in Callers :
    /\ Finished(c, "createOrder", "returned")
    /\ call[c].ret = 2
    /\ Len(call[c].dets) = 2
    /\ call[c].dets[1].productid = 2
    /\ call[c].dets[2].productid = 1
    /\ {r.id : r \in {x \in details : x.orderid = 2}} = {"2/2", "2/1"}
    /\ pre[c][2] # {}

\* The statement createOrder has to execute at position k of its call, given the
\* statement before it.
CreateExpected(c, k) ==
  LET n == Len(call[c].dets)
      p == log[c][k - 1]
  IN IF k = 1 THEN <<"BEGIN", 0>>
     ELSE CASE p.stmt = "BEGIN" ->
                 IF p.res = "ok" THEN <<"INSERT_ORDER", 0>> ELSE <<"NONE", 0>>
            [] p.stmt = "ROLLBACK" -> <<"NONE", 0>>
            [] p.stmt # "BEGIN" /\ p.stmt # "ROLLBACK" /\ p.res # "ok" -> <<"ROLLBACK", 0>>
            [] p.stmt = "INSERT_ORDER" /\ p.res = "ok" ->
                 IF n = 0 THEN <<"COMMIT", 0>> ELSE <<"INSERT_DETAIL", 1>>
            [] p.stmt = "INSERT_DETAIL" /\ p.res = "ok" ->
                 IF p.i = n THEN <<"COMMIT", 0>> ELSE <<"INSERT_DETAIL", p.i + 1>>
            [] OTHER -> <<"NONE", 0>>

\* C4: transaction state machine of createOrder.  The statements of a call execute
\* in the order BEGIN, parent insert, detail inserts in input order, COMMIT; a detail
\* insert comes only after a parent insert that returned an id; after the first
\* statement that fails (or a parent insert without id) the next statement is
\* ROLLBACK and nothing follows it; every statement after BEGIN executes inside the
\* transaction that BEGIN opened, and a finished call has finished the sequence.
C4_CreateOrderStateMachine ==
  \A c \in Callers :
    call[c].op = "createOrder" =>
      /\ \A k \in 1..Len(log[c]) :
           /\ <<log[c][k].stmt, log[c][k].i>> = CreateExpected(c, k)
           /\ k > 1 => log[c][k].tx = c
           /\ log[c][k].stmt = "INSERT_DETAIL" => call[c].lastID # 0
      /\ pc[c] = "done" => CreateExpected(c, Len(log[c]) + 1) = <<"NONE", 0>>

\* A createOrder call whose parent insert returned no id went to ROLLBACK without a
\* detail insert, although details were supplied.
C4_Witness ==
  \E c \in Callers :
    /\ Finished(c, "createOrder", "threw")
    /\ Len(call[c].dets) = 2
    /\ HasEntry(c, "INSERT_ORDER", "noid")
    /\ Len(log[c]) = 3
    /\ log[c][3].stmt = "ROLLBACK"

\* C5: transaction state machine of updateOrder.  The parent UPDATE executes only
\* after BEGIN completed, a detail UPDATE only after the parent UPDATE succeeded,
\* COMMIT only after every detail UPDATE succeeded, and no UPDATE of the call executes
\* once its COMMIT or ROLLBACK has been issued (ROLLBACK is issued by the catch block
\* as soon as a statement of the call has failed).
C5_UpdateOrderStateMachine ==
  \A c \in Callers :
    call[c].op = "updateOrder" =>
      \A k \in 1..Len(log[c]) :
        LET e == log[c][k]
            before == {log[c][j] : j \in 1..(k - 1)}
        IN /\ (k = 1) <=> (e.stmt = "BEGIN")
           /\ e.stmt = "UPDATE_ORDER" => k = 2 /\ log[c][1].res = "ok"
           /\ e.stmt = "UPDATE_DETAIL" =>
                /\ k > 2
                /\ log[c][2].stmt = "UPDATE_ORDER" /\ log[c][2].res = "ok"
                /\ \A b \in before : b.res = "ok" /\ b.stmt \notin {"COMMIT", "ROLLBACK"}
           /\ e.stmt = "COMMIT" =>
                {b.i : b \in {x \in before : x.stmt = "UPDATE_DETAIL" /\ x.res = "ok"}}
                  = 1..call[c].i

\* The first statement of the call that did not return what the code needs.
FirstFailure(c) ==
  LET bad == {k \in 1..Len(log[c]) : log[c][k].res # "ok"}
      k == CHOOSE x \in bad : \A y \in bad : x <= y
  IN IF log[c][k].res = "noid" THEN "Error occurred" ELSE log[c][k].stmt

\* C6: rollback precedes the failure signal.  When a call of createOrder or
\* updateOrder whose BEGIN succeeded has signalled a failure, its ROLLBACK has been
\* executed by the store, successfully and on the call's own transaction; createOrder
\* signals the error of the statement that failed first, updateOrder the generic
\* 'Error occurred' whatever failed.
C6_RollbackBeforeSignal ==
  \A c \in Callers :
    pc[c] = "done" /\ call[c].out = "threw" /\ call[c].began =>
      /\ \E k \in 1..Len(log[c]) :
           log[c][k].stmt = "ROLLBACK" /\ log[c][k].res = "ok" /\ log[c][k].tx = c
      /\ call[c].op = "createOrder" => call[c].err = FirstFailure(c)
      /\ call[c].op = "updateOrder" => call[c].err = "Error occurred"

\* updateOrder signalled its failure after a detail UPDATE had failed and ROLLBACK
\* had run.
C6_Witness ==
  \E c \in Callers :
    /\ Finished(c, "updateOrder", "threw")
    /\ HasEntry(c, "UPDATE_DETAIL", "fail")
    /\ HasEntry(c, "ROLLBACK", "ok")

\* C7: the transaction is scoped to the call.  A caller that has no call in progress
\* (it returned or signalled) does not own the open transaction, and a finished call
\* whose BEGIN succeeded ended its transaction with exactly one successful COMMIT or
\* ROLLBACK of its own.
C7_TransactionScopedToCall ==
  \A c \in Callers :
    /\ pc[c] \in {"idle", "done"} => ~(txOpen /\ txOwner = c)
    /\ pc[c] = "done" /\ call[c].began =>
         Cardinality({k \in 1..Len(log[c]) :
                        /\ log[c][k].stmt \in {"COMMIT", "ROLLBACK"}
                        /\ log[c][k].res = "ok"
                        /\ log[c][k].tx = c}) = 1

\* A createOrder call whose COMMIT failed ended with ROLLBACK, and the other caller
\* had a call in progress meanwhile.
C7_Witness ==
  \E c \in Callers :
    /\ Finished(c, "createOrder", "threw")
    /\ HasEntry(c, "COMMIT", "fail")
    /\ HasEntry(c, "ROLLBACK", "ok")
    /\ \E d \in Callers \ {c} : pc[d] \notin {"idle", "done"}

Writes == {"INSERT_ORDER", "INSERT_DETAIL", "UPDATE_ORDER", "UPDATE_DETAIL",
           "DELETE_ORDER"}

\* C8: isolation between concurrent operations.  No read returns anything but what
\* the committed rows give, and no statement of a call changes rows inside the
\* transaction of another call (whose COMMIT or ROLLBACK would commit or undo it).
C8_Isolation ==
  \A c \in Callers :
    /\ Finished(c, "getOrder", "returned") => call[c].ret = call[c].comm
    /\ \A k \in 1..Len(log[c]) :
         log[c][k].stmt \in Writes /\ log[c][k].ch > 0 => log[c][k].tx \in {0, c}

\* C9: ownership invariant.  Every committed OrderDetail row belongs to exactly one
\* committed CustomerOrder row.
C9_Ownership ==
  \A r \in CommittedDetails :
    Cardinality({o \in CommittedOrders : o.id = r.orderid}) = 1

\* C10: deleteOrder(id) removes the CustomerOrder row with that id and nothing else.
\* It always returns, its one statement is a DELETE executed outside any transaction,
\* the CustomerOrder rows are those from before the call without the row id (all of
\* them when there was none), and the OrderDetail rows are those from before the call.
C10_DeleteOrderFrame ==
  \A c \in Callers :
    pc[c] = "done" /\ call[c].op = "deleteOrder" =>
      /\ call[c].out = "returned"
      /\ log[c] = <<[stmt |-> "DELETE_ORDER", i |-> 0, res |-> "ok",
                      ch |-> Matching(pre[c][1], call[c].id), tx |-> 0]>>
      /\ ~txOpen
      /\ orders = {o \in pre[c][1] : o.id # call[c].id}
      /\ details = pre[c][2]

\* deleteOrder removed one of two orders, and the removed order had details.
C10_Witness ==
  \E c \in Callers :
    /\ Finished(c, "deleteOrder", "returned")
    /\ Cardinality(pre[c][1]) = 2
    /\ Cardinality(orders) = 1
    /\ \E r \in details : r.orderid = call[c].id

\* C11: composite-key invariant.  The id of every committed OrderDetail row is
\* "{orderid}/{productid}" of that row, so no order has two rows for one product;
\* and a createOrder whose details name one product twice leaves nothing behind.
C11_CompositeKey ==
  /\ \A r \in CommittedDetails : r.id = ClaimedDetailId(r.orderid, r.productid)
  /\ \A r, s \in CommittedDetails :
       r.orderid = s.orderid /\ r.productid = s.productid => r = s
  /\ \A c \in Callers :
       ( /\ pc[c] = "done" /\ call[c].op = "createOrder"
         /\ \E j, k \in 1..Len(call[c].dets) :
              j # k /\ call[c].dets[j].productid = call[c].dets[k].productid ) =>
         /\ call[c].out = "threw"
         /\ orders = pre[c][1]
         /\ details = pre[c][2]

\* C12: values are never part of the SQL text.  Two calls of one operation that
\* differ only in data values (the customer filter, the order id, the values of the
\* fields of order and details) issue the same text: the text of a finished listing
\* that filters by customer is the text of the same listing for any other customer,
\* and the texts of the other operations do not depend on the id or on the values
\* of the fields.
C12_ValuesNotInSqlText ==
  \A c \in Callers :
    ( /\ pc[c] = "done"
      /\ call[c].op \in {"getAllOrders", "getCustomerOrders"}
      /\ Truthy(call[c].options.customerId) ) =>
      /\ \A v \in CustomerIds :
           Truthy(v) =>
             AllOrdersSql([call[c].options EXCEPT !.customerId = v]) = call[c].text
      /\ \A a, b \in OrderObjects :
           Keys(a) = Keys(b) =>
             /\ InsertOrderSql(a) = InsertOrderSql(b)
             /\ \A i, j \in OrderIds : UpdateOrderSql(i, a) = UpdateOrderSql(j, b)
      /\ \A a, b \in DetailObjects :
           Keys(a) = Keys(b) => InsertDetailSql(a) = InsertDetailSql(b)

\* C13: customer-scoped listing.  getCustomerOrders(customerId, opts) returns only
\* orders whose customerid is the customerId argument, whatever opts is; when opts
\* gives neither sort nor order the rows come by shippeddate ascending; and what opts
\* gives for sort, order, page and perPage is what the query uses.
C13_CustomerScopedListing ==
  \A c \in Callers :
    Finished(c, "getCustomerOrders", "returned") =>
      LET rows == call[c].ret
          given == call[c].given
      IN /\ \A i \in 1..Len(rows) : rows[i].customerid = call[c].arg
         /\ DOMAIN given \cap {"sort", "order"} = {} =>
              \A i, j \in 1..Len(rows) :
                i < j => rows[i].shippeddate <= rows[j].shippeddate
         /\ \A k \in DOMAIN given \cap {"sort", "order", "page", "perPage"} :
              call[c].options[k] = given[k]

\* C14: getOrder not-found.  For an id that matches no CustomerOrder row, getOrder
\* returns, and what it returns is the absent result: no row object.
C14_GetOrderNotFound ==
  \A c \in Callers :
    pc[c] = "done" /\ call[c].op = "getOrder"
      /\ ~(\E o \in orders : o.id = call[c].id) =>
        /\ call[c].out = "returned"
        /\ call[c].ret = NoRow

\* The subtotal the claim gives for a set of lines, in hundredths.
RECURSIVE ClaimedSubtotal(_)
ClaimedSubtotal(L) ==
  IF L = {} THEN 0
  ELSE LET r == CHOOSE x \in L : TRUE
       IN r.unitprice * r.quantity * (100 - r.discount) + ClaimedSubtotal(L \ {r})

\* C15: subtotal.  For an order that exists, getOrder returns the row of that order,
\* and its subtotal is the sum of unitprice * quantity * (1 - discount) over exactly
\* the OrderDetail rows of the order, whatever the joins to Customer and Employee
\* find; with no OrderDetail row the order is still returned, with a null subtotal.
C15_Subtotal ==
  \A c \in Callers :
    pc[c] = "done" /\ call[c].op = "getOrder"
      /\ (\E o \in orders : o.id = call[c].id) =>
        LET L == {r \in details : r.orderid = call[c].id}
        IN /\ call[c].out = "returned"
           /\ call[c].ret # NoRow
           /\ call[c].ret.id = call[c].id
           /\ call[c].ret.subtotal = IF L = {} THEN NullNum ELSE ClaimedSubtotal(L)

\* getOrder returned the subtotal 23 for an order of no customer whose lines are
\* {10, 2, 0.1} and {5, 1, 0}, beside the lines of another order.
C15_Witness ==
  \E c \in Callers :
    /\ Finished(c, "getOrder", "returned")
    /\ call[c].ret.id = call[c].id
    /\ call[c].ret.subtotal = 2300
    /\ call[c].ret.customername = NullText
    /\ Cardinality({r \in details : r.orderid = call[c].id}) = 2
    /\ \E r \in details : r.orderid # call[c].id

\* The CustomerOrder rows a listing with the options o is about.
Listed(o) ==
  {x \in orders : (o.customerId # Undefined /\ o.customerId # "") =>
                     x.customerid = o.customerId}

\* x comes before y in the ordering the options o ask for.
Before(x, y, o) ==
  LET kx == IF o.sort = "id" THEN x.id ELSE x.shippeddate
      ky == IF o.sort = "id" THEN y.id ELSE y.shippeddate
  IN IF o.order = "asc" THEN kx < ky ELSE kx > ky

\* The position of x in that ordering, from 1.
Position(x, o) == 1 + Cardinality({y \in Listed(o) : Before(y, x, o)})

DefaultListingText ==
  "SELECT CustomerOrder.id AS id,CustomerOrder.customerid,CustomerOrder.employeeid,"
  \o "CustomerOrder.shipcity,CustomerOrder.shipcountry,CustomerOrder.shippeddate,"
  \o " Customer.companyname AS customername, Employee.lastname AS employeename"
  \o " FROM CustomerOrder LEFT JOIN Customer ON Customer.id = customerid"
  \o " LEFT JOIN Employee ON Employee.id = employeeid "
  \o " ORDER BY id asc LIMIT 20 OFFSET 0"

\* C17: default merge.  getAllOrders({}) and getAllOrders({page: 1, perPage: 20,
\* sort: "id", order: "asc"}) issue the same text and return the same rows: the first
\* 20 rows of the whole table by id.  For any opts, an option that is supplied
\* replaces its own default and every other option keeps its default.
C17_DefaultMerge ==
  \A c \in Callers :
    pc[c] = "done" /\ call[c].op = "getAllOrders" =>
      LET given == call[c].given
          rows == call[c].ret
      IN /\ \A k \in OptionKeys :
              call[c].options[k] =
                IF k \in DOMAIN given THEN given[k]
                ELSE CASE k = "page" -> 1
                       [] k = "perPage" -> 20
                       [] k = "sort" -> "id"
                       [] k = "order" -> "asc"
                       [] k = "customerId" -> Undefined
         /\ DOMAIN call[c].options = OptionKeys
         /\ ( \/ given = [k \in {} |-> 0]
              \/ given = [page |-> 1, perPage |-> 20, sort |-> "id", order |-> "asc"] ) =>
              /\ call[c].text = DefaultListingText
              /\ call[c].out = "returned"
              /\ Len(rows) = IF Cardinality(orders) < 20 THEN Cardinality(orders) ELSE 20
              /\ \A i \in 1..Len(rows) :
                   /\ rows[i].id \in {o.id : o \in orders}
                   /\ Cardinality({o \in orders : o.id < rows[i].id}) = i - 1

\* getAllOrders({}) returned the first 20 rows of a table of more than 20 rows.
C17_Witness ==
  \E c \in Callers :
    /\ Finished(c, "getAllOrders", "returned")
    /\ DOMAIN call[c].given = {}
    /\ Cardinality(orders) > 20
    /\ Len(call[c].ret) = 20
    /\ call[c].ret[20].id = 20

\* C18: getOrderWithDetails is two reads.  The pair it returns is the order as
\* getOrder found it when the first read executed and the details as getOrderDetails
\* found them when the second read executed, the first read before the second and
\* each a statement of its own: what another caller wrote in between is in the
\* second half of the pair only.
C18_TwoReads ==
  \A c \in Callers :
    pc[c] = "done" /\ call[c].op = "getOrderWithDetails" =>
      /\ call[c].out = "returned"
      /\ call[c].ret[1] = OrderRowOf(call[c].at1[1], call[c].at1[2], call[c].id)
      /\ call[c].ret[2] = {r \in call[c].at2[2] : r.orderid = call[c].id}
      /\ Len(log[c]) = 2
      /\ log[c][1].stmt = "SELECT_ORDER"
      /\ log[c][2].stmt = "SELECT_DETAILS"

\* getOrderWithDetails(1) returned a pair that no single state gave: another caller
\* created order 1 with a line and committed between the two reads, so the order is
\* absent from the pair and its line is in it.
C18_Witness ==
  \E c \in Callers :
    /\ Finished(c, "getOrderWithDetails", "returned")
    /\ ~txOpen
    /\ call[c].ret[1] = NullOrder
    /\ call[c].ret[2] # {}
    /\ call[c].at1 = <<{}, {}>>
    /\ call[c].at2 = <<orders, details>>
    /\ \E o \in orders : o.id = call[c].id
    /\ call[c].ret # <<OrderRowOf(call[c].at1[1], call[c].at1[2], call[c].id),
                       OrderDetailsOf(call[c].at1[2], call[c].id)>>
    /\ call[c].ret # <<OrderRowOf(call[c].at2[1], call[c].at2[2], call[c].id),
                       OrderDetailsOf(call[c].at2[2], call[c].id)>>

\* C19: updateOrder with zero updatable fields.  updateOrder(id, {}, details)
\* signals a failure, executes no detail UPDATE, and leaves every CustomerOrder and
\* OrderDetail row as it was, with no transaction open.
C19_UpdateOrderNoFields ==
  \A c \in Callers :
    pc[c] = "done" /\ call[c].op = "updateOrder" /\ call[c].data = NoFields =>
      /\ call[c].out = "threw"
      /\ \A k \in 1..Len(log[c]) : log[c][k].stmt # "UPDATE_DETAIL"
      /\ \A s \in stale : s.n # call[c].n
      /\ ~txOpen
      /\ orders = pre[c][1]
      /\ details = pre[c][2]

\* updateOrder(id, {}, details) with two details, for an order that exists and has
\* lines, failed at the parent UPDATE and was rolled back.
C19_Witness ==
  \E c \in Callers :
    /\ Finished(c, "updateOrder", "threw")
    /\ call[c].data = NoFields
    /\ call[c].i = 2
    /\ \E o \in pre[c][1] : o.id = call[c].id
    /\ \E r \in pre[c][2] : r.orderid = call[c].id
    /\ Len(log[c]) = 3
    /\ log[c][2] = [stmt |-> "UPDATE_ORDER", i |-> 0, res |-> "fail", ch |-> 0, tx |-> c]
    /\ log[c][3].stmt = "ROLLBACK" /\ log[c][3].res = "ok"

\* C20: a failed BEGIN is not rolled back.  A call of createOrder or updateOrder whose
\* BEGIN failed has executed no other statement (no INSERT, no UPDATE, no COMMIT, no
\* ROLLBACK), has none in flight, and has signalled the BEGIN error: it neither
\* commits nor rolls back the transaction of the call that made its BEGIN fail.
C20_BeginFailureNotRolledBack ==
  \A c \in Callers :
    ( /\ call[c].op \in {"createOrder", "updateOrder"}
      /\ Len(log[c]) > 0
      /\ log[c][1].res = "fail" ) =>
      /\ log[c] = <<[stmt |-> "BEGIN", i |-> 0, res |-> "fail", ch |-> 0,
                      tx |-> log[c][1].tx]>>
      /\ pc[c] = "done"
      /\ call[c].out = "threw"
      /\ call[c].err = "BEGIN"
      /\ ~call[c].began
      /\ \A s \in stale : s.n # call[c].n

\* The BEGIN of an updateOrder call failed inside the open transaction of a
\* createOrder call of the other caller, which is still open with its rows.
C20_Witness ==
  \E c \in Callers : \E d \in Callers \ {c} :
    /\ Finished(c, "updateOrder", "threw")
    /\ call[c].err = "BEGIN"
    /\ txOpen /\ txOwner = d
    /\ call[d].op = "createOrder"
    /\ pc[d] = "c_commit"
    /\ orders # {} /\ details # {}

\* ------------------------------------------------------------- specifications

\* No call in progress and no statement in flight.
Quiescent == (\A c \in Callers : pc[c] = "idle") /\ stale = {}

Step(c) ==
  \/ CreateBegin(c)
  \/ CreateInsertOrder(c)
  \/ CreateInsertDetail(c)
  \/ CreateCommit(c)
  \/ CreateRollback(c)
  \/ UpdateBegin(c)
  \/ UpdateParent(c)
  \/ \E i \in 1..MaxDetails : UpdateDetail(c, i)
  \/ UpdateCommit(c)
  \/ UpdateRollback(c)
  \/ DeleteOrder(c)
  \/ GetOrder(c)
  \/ WithDetailsOrder(c)
  \/ WithDetailsItems(c)
  \/ Ack(c)

Start(c) ==
  \/ CallCreateOrder(c)
  \/ CallUpdateOrder(c)
  \/ CallDeleteOrder(c)
  \/ CallGetOrder(c)
  \/ CallGetOrderWithDetails(c)

\* One client: each call is awaited, and the next one starts on a quiet handle.
Next ==
  \/ \E c \in Callers : (Quiescent /\ ncalls < MaxCalls /\ Start(c)) \/ Step(c)
  \/ \E s \in stale : StaleUpdate(s)

Spec == Init /\ [][Next]_vars

\* Several clients: calls start at any time and interleave at every await.
NextConc ==
  \/ \E c \in Callers :
       \/ ncalls < MaxConcCalls /\ Start(c)
       \/ Step(c)
  \/ \E s \in stale : StaleUpdate(s)

SpecConc == Init /\ [][NextConc]_vars

\* A row of CustomerOrder as the listing reads it.
ListRowChoices ==
  [customerid : {"ALFKI", "BONAP"}, employeeid : {1}, shippeddate : {1, 2}]
    \cup {[customerid |-> NullText, employeeid |-> NullNum, shippeddate |-> 1]}

ListRow(i, r) ==
  [id |-> i, customerid |-> r.customerid, employeeid |-> r.employeeid,
   shippeddate |-> r.shippeddate]

\* A table of more than one default page: customers alternate, and the orders were
\* shipped in the reverse order of their ids.
BigTable ==
  {[id |-> i, customerid |-> IF i % 2 = 0 THEN "ALFKI" ELSE "BONAP", employeeid |-> 1,
    shippeddate |-> BigRows + 1 - i] : i \in 1..BigRows}

\* Reads of a table that does not change do not interact: one caller makes them.
Readers == {1}

\* The listing over a table that does not change.
InitList ==
  /\ \/ \E n \in 0..SmallRows : \E f \in [1..n -> ListRowChoices] :
          orders = {ListRow(i, f[i]) : i \in 1..n}
     \/ orders = BigTable
  /\ details = {}
  /\ txOpen = FALSE
  /\ snapOrders = {}
  /\ snapDetails = {}
  /\ pc = [c \in Callers |-> "idle"]
  /\ call = [c \in Callers |-> NoCall]
  /\ stale = {}
  /\ log = [c \in Callers |-> <<>>]
  /\ txOwner = 0
  /\ pre = [c \in Callers |-> <<{}, {}>>]
  /\ ncalls = 0

NextList ==
  \E c \in Readers :
    \/ Quiescent /\ ncalls < MaxListCalls /\ CallGetAllOrders(c)
    \/ Quiescent /\ ncalls < MaxListCalls /\ CallGetCustomerOrders(c)
    \/ GetAllOrders(c)
    \/ Ack(c)

SpecList == InitList /\ [][NextList]_vars

\* The unit price, quantity and discount of a line.
LineChoices ==
  {[unitprice |-> 10, quantity |-> 2, discount |-> 10],
   [unitprice |-> 5, quantity |-> 1, discount |-> 0]}

DetailRow(n, p, l) ==
  [id |-> CompositeId(n, p), orderid |-> n, productid |-> p, unitprice |-> l.unitprice,
   quantity |-> l.quantity, discount |-> l.discount]

\* A row of CustomerOrder as getOrder reads it: with or without customer and employee.
GetRowChoices ==
  {[customerid |-> "ALFKI", employeeid |-> 1, shippeddate |-> 1],
   [customerid |-> NullText, employeeid |-> NullNum, shippeddate |-> 1]}

\* getOrder over tables that do not change: up to SmallRows orders and up to MaxLines
\* lines, of any order id and at most one per order and product.
InitGet ==
  /\ \E n \in 0..SmallRows : \E f \in [1..n -> GetRowChoices] :
       orders = {ListRow(i, f[i]) : i \in 1..n}
  /\ \E K \in {X \in SUBSET (OrderIds \X Products) : Cardinality(X) <= MaxLines} :
       \E l \in [K -> LineChoices] :
         details = {DetailRow(k[1], k[2], l[k]) : k \in K}
  /\ txOpen = FALSE
  /\ snapOrders = {}
  /\ snapDetails = {}
  /\ pc = [c \in Callers |-> "idle"]
  /\ call = [c \in Callers |-> NoCall]
  /\ stale = {}
  /\ log = [c \in Callers |-> <<>>]
  /\ txOwner = 0
  /\ pre = [c \in Callers |-> <<{}, {}>>]
  /\ ncalls = 0

NextGet ==
  \E c \in Readers :
    \/ Quiescent /\ ncalls < MaxListCalls /\ CallGetOrder(c)
    \/ GetOrderRow(c)
    \/ Ack(c)

SpecGet == InitGet /\ [][NextGet]_vars

=============================================================================
